---------------------------- MODULE Spec2Model ----------------------------
(***************************************************************************)
(* Model of bin/src/orth/fga_orth_check.py: the consistency check of gene  *)
(* family (orthology) mappings over a list of mapping files.               *)
(*                                                                         *)
(* Gene family ids are strings in the program; here they are the numbers   *)
(* of FamilyIds, whose numeric order stands for the alphabetic order used  *)
(* by sorted().  Python dictionaries are functions whose DOMAIN is the set *)
(* of keys present; None is the value of a failed .get().                  *)
(***************************************************************************)
EXTENDS Integers, Sequences, FiniteSets, TLC

\* ------------------------------------------------------------------ bounds
\* data lines (after the header) of one mapping file
MaxLines == 3
\* calls of main made by one process
MaxCalls == 2

\* ------------------------------------------------------- the input universe
\* the gene family ids that occur in the files, in alphabetic order
FamilyIds == {1, 2, 3}

\* (gene id, organism) pairs that occur in the files: the same gene id in two
\* organisms, and two gene ids in one organism
GeneKeys == {<<"g1", "A">>, <<"g2", "A">>, <<"g1", "B">>}

\* the value of dict.get() for a missing key
None == -1

\* ------------------------------------------------------- record extraction
\* A raw line is the tuple of its tab separated fields.  Field i of Python's
\* 0-based split is element i+1 here.
WellFormedLines == {<<"x", f, "x", k[1], k[2]>> : f \in FamilyIds, k \in GeneKeys}
ShortLine == <<"x", "x", "x">>
HeaderLine == <<"header">>
Lines == WellFormedLines \cup {ShortLine}

\* retrieve_info_from_string: fields 1, 3 and 4; IndexError on a short line
Parses(data) == Len(data) >= 5
retrieve_info_from_string(data) == <<data[2], data[4], data[5]>>

\* split_file_by_o_ids: skip the header, drop the lines that raise IndexError,
\* append (g_id, organism) to the list of the line's family id in line order.
\* The result is a dict: its DOMAIN holds the family ids that got a line.
RECURSIVE split_lines(_, _)
split_lines(data, cnt) ==
    IF cnt > Len(data) THEN <<>>
    ELSE LET rest == split_lines(data, cnt + 1)
         IN  IF cnt > 1 /\ Parses(data[cnt])
             THEN <<retrieve_info_from_string(data[cnt])>> \o rest
             ELSE rest

RECURSIVE group_by_o_id(_)
group_by_o_id(retrieved_data) ==
    IF retrieved_data = <<>> THEN <<>>
    ELSE LET n    == Len(retrieved_data)
             init == group_by_o_id(SubSeq(retrieved_data, 1, n - 1))
             rec  == retrieved_data[n]
             o_id == rec[1]
             old  == IF o_id \in DOMAIN init THEN init[o_id] ELSE <<>>
         IN  [f \in DOMAIN init \cup {o_id} |->
                 IF f = o_id THEN Append(old, <<rec[2], rec[3]>>) ELSE init[f]]

split_file_by_o_ids(data) == group_by_o_id(split_lines(data, 1))

\* the files of at most n data lines, lines of any kind in any order
FilesUpTo(n) ==
    UNION {{<<HeaderLine>> \o body : body \in [1..m -> Lines]} : m \in 0..n}

RECURSIVE SumOver(_, _)
SumOver(lens, S) ==
    IF S = {} THEN 0
    ELSE LET f == CHOOSE x \in S : TRUE IN lens[f] + SumOver(lens, S \ {f})

\* how many lines each family id has in a file of at most n data lines
LineCounts(n) == {lens \in [FamilyIds -> 0..n] : SumOver(lens, FamilyIds) <= n}

\* the family id of data line i of a file that lists its lines family by family
FamilyOfLine(lens, i) ==
    CHOOSE f \in FamilyIds :
        /\ SumOver(lens, {h \in FamilyIds : h < f}) < i
        /\ i <= SumOver(lens, {h \in FamilyIds : h <= f})

\* the well formed files of at most n data lines that list them family by family
SortedFiles(n) ==
    UNION {{<<HeaderLine>> \o
               [i \in 1..SumOver(lens, FamilyIds) |->
                   <<"x", FamilyOfLine(lens, i), "x", gs[i][1], gs[i][2]>>] :
            gs \in [1..SumOver(lens, FamilyIds) -> GeneKeys]} :
           lens \in LineCounts(n)}

\* The files read: every file of at most two data lines, and the longer ones
\* among those that list their lines family by family (the order of the lines
\* of different families does not change the grouping).
Files(n) == FilesUpTo(2) \cup SortedFiles(n)

\* what split_file_by_o_ids can return for a file of at most MaxLines data lines
Groupings == {split_file_by_o_ids(data) : data \in Files(MaxLines)}

\* the same for a file that is one line longer
LongGroupings == {split_file_by_o_ids(data) : data \in Files(MaxLines + 1)}

\* the (g_id, organism) pairs of a family's list
GenesOf(genes) == {genes[i] : i \in 1..Len(genes)}

\* no gene of the file is listed under two family ids
Disjoint(grouping) ==
    \A f1 \in DOMAIN grouping : \A f2 \in DOMAIN grouping :
        f1 # f2 => GenesOf(grouping[f1]) \cap GenesOf(grouping[f2]) = {}

\* ------------------------------------------------------------ dictionaries
retrieve_o_id_value(o_id, storage) ==
    IF o_id \in DOMAIN storage THEN storage[o_id] ELSE None

retrieve_g_id_value(g_id, organism, storage) ==
    IF organism \in DOMAIN storage /\ g_id \in DOMAIN storage[organism]
    THEN storage[organism][g_id] ELSE None

\* storage[key] = value
SetItem(storage, key, value) ==
    [k \in DOMAIN storage \cup {key} |-> IF k = key THEN value ELSE storage[k]]

\* storage[organism][g_id] = value for every (g_id, organism) in keys
SetGenes(storage, keys, value) ==
    LET orgs == DOMAIN storage \cup {k[2] : k \in keys}
    IN  [o \in orgs |->
            LET old == IF o \in DOMAIN storage THEN storage[o] ELSE <<>>
                gs  == {k[1] : k \in {kk \in keys : kk[2] = o}}
            IN  [g \in DOMAIN old \cup gs |-> IF g \in gs THEN value ELSE old[g]]]

\* ----------------------------------------------------- collections.Counter
\* A Counter is kept as the sequence of its <<key, count>> items in insertion
\* order (the order in which the keys were first counted).
RECURSIVE CounterAdd(_, _)
CounterAdd(cnt, v) ==
    IF cnt = <<>> THEN << <<v, 1>> >>
    ELSE IF cnt[1][1] = v THEN << <<v, cnt[1][2] + 1>> >> \o Tail(cnt)
    ELSE <<cnt[1]>> \o CounterAdd(Tail(cnt), v)

\* Counter(g_id_value for g_id_value in g_id_values if g_id_value is not None)
RECURSIVE Counter(_)
Counter(values) ==
    IF values = <<>> THEN <<>>
    ELSE LET n    == Len(values)
             init == Counter(SubSeq(values, 1, n - 1))
         IN  IF values[n] = None THEN init ELSE CounterAdd(init, values[n])

\* insert an item behind every item whose count is not smaller (stable sort)
RECURSIVE InsertByCount(_, _)
InsertByCount(sorted, item) ==
    IF sorted = <<>> THEN <<item>>
    ELSE IF sorted[1][2] >= item[2]
         THEN <<sorted[1]>> \o InsertByCount(Tail(sorted), item)
         ELSE <<item>> \o sorted

\* Counter.most_common(): the items sorted by count, largest first; items of
\* equal count keep their insertion order
RECURSIVE most_common(_)
most_common(cnt) ==
    IF cnt = <<>> THEN <<>>
    ELSE LET n == Len(cnt)
         IN  InsertByCount(most_common(SubSeq(cnt, 1, n - 1)), cnt[n])

RECURSIVE SumCounts(_)
SumCounts(items) ==
    IF items = <<>> THEN 0 ELSE items[1][2] + SumCounts(Tail(items))


\* ---------------------------------------------------- the body of the loop
\* line 152: the previous mapping of every gene of the family, in line order
g_id_values_of(genes, storage) ==
    [i \in 1..Len(genes) |-> retrieve_g_id_value(genes[i][1], genes[i][2], storage)]

\* all(g_id is None for g_id in g_id_values)
AllNone(g_id_values) == \A i \in 1..Len(g_id_values) : g_id_values[i] = None

\* faulty variant: the value of the first gene that has one, whatever its frequency
MostCommonValue_FirstGene(g_id_values_cnt) == g_id_values_cnt[1][1]

\* faulty variant: the least common value
MostCommonValue_Least(g_id_values_cnt) ==
    most_common(g_id_values_cnt)[Len(g_id_values_cnt)][1]

\* line 181: g_id_values_cnt.most_common()[0][0]
MostCommonValue(g_id_values_cnt) == most_common(g_id_values_cnt)[1][1]

\* faulty variant: the sweep writes every gene of the family
GenesToMap_All(g_id_values, genes) == GenesOf(genes)

\* faulty variant: the test of line 188 inverted
GenesToMap_Mapped(g_id_values, genes) ==
    {genes[i] : i \in {j \in 1..Len(genes) : g_id_values[j] # None}}

\* lines 187-189: the genes the sweep writes, those with no previous mapping
GenesToMap(g_id_values, genes) ==
    {genes[i] : i \in {j \in 1..Len(genes) : g_id_values[j] = None}}

\* line 196: the family goes into the report
IsMissMatched(g_id_values_cnt) == Len(g_id_values_cnt) > 1

\* faulty variant: the most common value is not left out of the sum
MissMatchKey_All(g_id_values_cnt) == SumCounts(most_common(g_id_values_cnt))

\* line 197: sum(x[1] for x in g_id_values_cnt.most_common()[1:])
MissMatchKey(g_id_values_cnt) == SumCounts(Tail(most_common(g_id_values_cnt)))

\* faulty variant: the count does not move
Advance_Stuck(source) == source

\* line 167: next(integers_source) leaves the count one higher
Advance(source) == source + 1

\* miss_matched_gene_families_freq[key].append(o_id) on a defaultdict(list)
AppendTo(freq, key, o_id) ==
    SetItem(freq, key, Append(IF key \in DOMAIN freq THEN freq[key] ELSE <<>>, o_id))

\* ------------------------------------------------------------------- state
VARIABLES
    integers_source,                  \* the next value of itertools.count()
    source_files_list,                \* the argument of main
    disk,                             \* position in the list -> grouping of that file, where fixed
    calls,                            \* calls of main made by this process
    gene_family_id_mapping,           \* o_id -> integer
    gene_id_mapping,                  \* organism -> g_id -> integer
    pc,                               \* "files", "families" or "done"
    file_no,                          \* files of source_files_list opened
    o_id_split_data,                  \* the grouping of the current file
    o_ids_left,                       \* what is left of sorted(keys)
    miss_matched_gene_families_cnt,
    miss_matched_gene_families_freq,  \* key -> list of o_id
    number_of_genes_per_family,       \* o_id -> len(g_id_values)
    last,                             \* history: the last loop body executed
    file_start,                       \* history: both tables when the file was opened,
                                      \*   and whether the files before were disjoint
    first_call,                       \* history: the outcome of the first call
    first_resolution                  \* history: (g_id, organism) -> the value resolved
                                      \*   for the first family that listed the gene

vars == <<integers_source, source_files_list, disk, calls, gene_family_id_mapping,
          gene_id_mapping, pc, file_no, o_id_split_data, o_ids_left,
          miss_matched_gene_families_cnt, miss_matched_gene_families_freq,
          number_of_genes_per_family, last, file_start, first_call,
          first_resolution>>

NoLast == [o_id |-> 0, genes |-> <<>>, g_id_values |-> <<>>, o_id_value_before |-> None,
           o_id_value |-> None, branch |-> "-", next_int |-> None]

NoCall == [families |-> <<>>, freq |-> <<>>, done |-> FALSE]

\* the state of the process when main is entered (lines 94, 137-138)
InitCommon ==
    /\ integers_source = 0
    /\ calls = 1
    /\ gene_family_id_mapping = <<>>
    /\ gene_id_mapping = <<>>
    /\ pc = "files"
    /\ file_no = 0
    /\ o_id_split_data = <<>>
    /\ o_ids_left = {}
    /\ miss_matched_gene_families_cnt = 0
    /\ miss_matched_gene_families_freq = <<>>
    /\ number_of_genes_per_family = <<>>
    /\ last = NoLast
    /\ file_start = [families |-> <<>>, genes |-> <<>>, disjoint_before |-> TRUE]
    /\ first_call = NoCall
    /\ first_resolution = <<>>

\* the two files of the docstring; what they hold is fixed when they are read
Init ==
    /\ InitCommon
    /\ source_files_list = <<"orthology_mapping_file_1", "orthology_mapping_file_2">>
    /\ disk = <<>>

\* lines 144-149: open the next file, group it, reset the per-file counters
ReadFile ==
    /\ pc = "files"
    /\ file_no < Len(source_files_list)
    /\ \E g \in (IF file_no + 1 \in DOMAIN disk THEN {disk[file_no + 1]} ELSE Groupings) :
          /\ o_id_split_data' = g
          /\ o_ids_left' = DOMAIN g
    /\ file_no' = file_no + 1
    /\ pc' = "families"
    /\ miss_matched_gene_families_cnt' = 0
    /\ miss_matched_gene_families_freq' = <<>>
    /\ number_of_genes_per_family' = <<>>
    /\ last' = NoLast
    /\ file_start' = [families |-> gene_family_id_mapping, genes |-> gene_id_mapping,
                      disjoint_before |-> file_start.disjoint_before
                                          /\ Disjoint(o_id_split_data)]
    /\ UNCHANGED <<integers_source, source_files_list, disk, calls,
                   gene_family_id_mapping, gene_id_mapping, first_call,
                   first_resolution>>

\* history: the genes of keys that no family listed before get value
Resolve(resolution, keys, value) ==
    [k \in DOMAIN resolution \cup keys |->
        IF k \in DOMAIN resolution THEN resolution[k] ELSE value]

\* the smallest o_id left: sorted() yields the keys in ascending order
NextOId == CHOOSE o \in o_ids_left : \A p \in o_ids_left : o <= p

\* lines 151-200: one pass of the loop over the sorted family ids
ProcessFamily ==
    /\ pc = "families"
    /\ o_ids_left # {}
    /\ LET o_id            == NextOId
           genes           == o_id_split_data[o_id]
           g_id_values     == g_id_values_of(genes, gene_id_mapping)
           g_id_values_cnt == Counter(g_id_values)
           before          == retrieve_o_id_value(o_id, gene_family_id_mapping)
       IN  /\ o_ids_left' = o_ids_left \ {o_id}
           /\ number_of_genes_per_family' =
                  SetItem(number_of_genes_per_family, o_id, Len(g_id_values))
           /\ IF before = None /\ AllNone(g_id_values)
              THEN \* lines 161-171
                   LET next_int == integers_source
                   IN  /\ integers_source' = Advance(integers_source)
                       /\ gene_family_id_mapping' =
                              SetItem(gene_family_id_mapping, o_id, next_int)
                       /\ gene_id_mapping' =
                              SetGenes(gene_id_mapping,
                                       GenesOf(genes), next_int)
                       /\ UNCHANGED <<miss_matched_gene_families_cnt,
                                      miss_matched_gene_families_freq>>
                       /\ last' = [o_id |-> o_id, genes |-> genes,
                                   g_id_values |-> g_id_values,
                                   o_id_value_before |-> before,
                                   o_id_value |-> next_int, branch |-> "A",
                                   next_int |-> next_int]
                       /\ first_resolution' =
                              Resolve(first_resolution, GenesOf(genes), next_int)
              ELSE \* lines 177-200
                   LET o_id_value == IF before = None
                                     THEN MostCommonValue(g_id_values_cnt)
                                     ELSE before
                   IN  /\ UNCHANGED integers_source
                       /\ gene_family_id_mapping' =
                              IF before = None
                              THEN SetItem(gene_family_id_mapping, o_id, o_id_value)
                              ELSE gene_family_id_mapping
                       /\ gene_id_mapping' =
                              SetGenes(gene_id_mapping,
                                       GenesToMap(g_id_values, genes), o_id_value)
                       /\ IF IsMissMatched(g_id_values_cnt)
                          THEN /\ miss_matched_gene_families_cnt' =
                                      miss_matched_gene_families_cnt + 1
                               /\ miss_matched_gene_families_freq' =
                                      AppendTo(miss_matched_gene_families_freq,
                                               MissMatchKey(g_id_values_cnt), o_id)
                          ELSE UNCHANGED <<miss_matched_gene_families_cnt,
                                           miss_matched_gene_families_freq>>
                       /\ last' = [o_id |-> o_id, genes |-> genes,
                                   g_id_values |-> g_id_values,
                                   o_id_value_before |-> before,
                                   o_id_value |-> o_id_value,
                                   branch |-> IF before = None THEN "B" ELSE "C",
                                   next_int |-> None]
                       /\ first_resolution' =
                              Resolve(first_resolution, GenesOf(genes), o_id_value)
    /\ UNCHANGED <<source_files_list, disk, calls, pc, file_no, o_id_split_data,
                   file_start, first_call>>

\* faulty variant: the genes are counted, not the families
FamiliesTotal_Genes(genes_per_family) ==
    SumOver(genes_per_family, DOMAIN genes_per_family)

\* line 204: len(number_of_genes_per_family)
FamiliesTotal(genes_per_family) == Cardinality(DOMAIN genes_per_family)

\* line 208: the keys of miss_matched_gene_families_freq, largest first
RECURSIVE SortedKeys(_)
SortedKeys(keys) ==
    IF keys = {} THEN <<>>
    ELSE LET top == CHOOSE k \in keys : \A j \in keys : j <= k
         IN  <<top>> \o SortedKeys(keys \ {top})

\* lines 201-213: what is printed for the current file once its families are done
Report ==
    LET keys == SortedKeys(DOMAIN miss_matched_gene_families_freq)
    IN  [mgfc   |-> miss_matched_gene_families_cnt,
         ogfc   |-> FamiliesTotal(number_of_genes_per_family),
         groups |-> [n \in 1..Len(keys) |->
                       LET value == miss_matched_gene_families_freq[keys[n]]
                       IN  [key      |-> keys[n],
                            value    |-> Len(value),
                            families |-> [j \in 1..Len(value) |->
                                [o_id    |-> value[j],
                                 overall |-> number_of_genes_per_family[value[j]]]]]]]

\* lines 201-213: the loop over the families is over, the report is printed
PrintReport ==
    /\ pc = "families"
    /\ o_ids_left = {}
    /\ pc' = "files"
    /\ UNCHANGED <<integers_source, source_files_list, disk, calls,
                   gene_family_id_mapping, gene_id_mapping, file_no, o_id_split_data,
                   o_ids_left, miss_matched_gene_families_cnt,
                   miss_matched_gene_families_freq, number_of_genes_per_family,
                   last, file_start, first_call, first_resolution>>

\* line 144: source_files_list is exhausted, main returns
Return ==
    /\ pc = "files"
    /\ file_no = Len(source_files_list)
    /\ pc' = "done"
    /\ UNCHANGED <<integers_source, source_files_list, disk, calls,
                   gene_family_id_mapping, gene_id_mapping, file_no, o_id_split_data,
                   o_ids_left, miss_matched_gene_families_cnt,
                   miss_matched_gene_families_freq, number_of_genes_per_family,
                   last, file_start, first_call, first_resolution>>

Next == ReadFile \/ ProcessFamily \/ PrintReport \/ Return

Spec == Init /\ [][Next]_vars

\* ------------------------------------------- main called again by the process
\* One file whose content is fixed before the first call, so that every call
\* reads the same lines.
InitRepeat ==
    /\ InitCommon
    /\ source_files_list = <<"orthology_mapping_file_1">>
    /\ disk \in {<<g>> : g \in LongGroupings}

\* main(source_files_list) is called once more: lines 137-138 make two new
\* empty tables, the module level integers_source (line 94) is what it was
CallMain ==
    /\ pc = "done"
    /\ calls < MaxCalls
    /\ calls' = calls + 1
    /\ gene_family_id_mapping' = <<>>
    /\ gene_id_mapping' = <<>>
    /\ pc' = "files"
    /\ file_no' = 0
    /\ o_id_split_data' = <<>>
    /\ o_ids_left' = {}
    /\ miss_matched_gene_families_cnt' = 0
    /\ miss_matched_gene_families_freq' = <<>>
    /\ number_of_genes_per_family' = <<>>
    /\ last' = NoLast
    /\ file_start' = [families |-> <<>>, genes |-> <<>>, disjoint_before |-> TRUE]
    /\ first_call' = IF calls = 1
                     THEN [families |-> gene_family_id_mapping,
                           freq |-> miss_matched_gene_families_freq, done |-> TRUE]
                     ELSE first_call
    /\ first_resolution' = <<>>
    /\ UNCHANGED <<integers_source, source_files_list, disk>>

NextRepeat == ReadFile \/ ProcessFamily \/ PrintReport \/ Return \/ CallMain

SpecRepeat == InitRepeat /\ [][NextRepeat]_vars

\* ------------------------------------------------------------ properties
\* What the last loop body saw and did, read off the history record `last`.

\* the positions of the family's list whose gene had a previous mapping
Evidence == {i \in 1..Len(last.g_id_values) : last.g_id_values[i] # None}

\* the previous mappings found among the family's genes
PriorValues == {last.g_id_values[i] : i \in Evidence}

Frequency(v) == Cardinality({i \in Evidence : last.g_id_values[i] = v})

TopFrequency ==
    IF PriorValues = {} THEN 0
    ELSE CHOOSE n \in 1..Len(last.g_id_values) :
             /\ \E v \in PriorValues : Frequency(v) = n
             /\ \A v \in PriorValues : Frequency(v) <= n

FirstPosition(v) ==
    CHOOSE i \in Evidence :
        /\ last.g_id_values[i] = v
        /\ \A j \in Evidence : last.g_id_values[j] = v => i <= j

\* the keys of miss_matched_gene_families_freq whose list holds o_id
KeysOf(o_id) ==
    {k \in DOMAIN miss_matched_gene_families_freq :
        \E j \in 1..Len(miss_matched_gene_families_freq[k]) :
            miss_matched_gene_families_freq[k][j] = o_id}

\* how often o_id stands in the lists of miss_matched_gene_families_freq
TimesListed(o_id) ==
    SumOver([k \in DOMAIN miss_matched_gene_families_freq |->
                Cardinality({j \in 1..Len(miss_matched_gene_families_freq[k]) :
                                miss_matched_gene_families_freq[k][j] = o_id})],
            DOMAIN miss_matched_gene_families_freq)

\* what gene_id_mapping holds for a (g_id, organism) pair
Stored(k) == retrieve_g_id_value(k[1], k[2], gene_id_mapping)

\* what gene_id_mapping held for it when the current file was opened
StoredAtFileStart(k) == retrieve_g_id_value(k[1], k[2], file_start.genes)

\* the loop over the families of the current file is over
FileDone == pc = "families" /\ o_ids_left = {}

\* every value held in either table
FamilyValues == {gene_family_id_mapping[f] : f \in DOMAIN gene_family_id_mapping}
GeneValues ==
    UNION {{gene_id_mapping[o][g] : g \in DOMAIN gene_id_mapping[o]} :
           o \in DOMAIN gene_id_mapping}

CountFrom(f) ==
    Cardinality({i \in 1..Len(last.genes) :
                    StoredAtFileStart(last.genes[i]) = file_start.families[f]})

AllFromFirstFile ==
    \A i \in 1..Len(last.genes) : StoredAtFileStart(last.genes[i]) # None

\* more genes from f than from any other family of the first file, and some
\* from another one
MajorityFrom(f) ==
    /\ \A h \in DOMAIN file_start.families : h # f => CountFrom(h) < CountFrom(f)
    /\ \E h \in DOMAIN file_start.families : h # f /\ CountFrom(h) > 0

\* the report lists o_id under key with the annotation overall
Listed(o_id, key, overall) ==
    \E n \in 1..Len(Report.groups) :
        /\ Report.groups[n].key = key
        /\ \E j \in 1..Len(Report.groups[n].families) :
              Report.groups[n].families[j] = [o_id |-> o_id, overall |-> overall]

MissMapped == {i \in Evidence : last.g_id_values[i] # last.o_id_value}

\* C3: a processed family is listed in the report exactly when it has a miss
\* mapped gene (one whose previous mapping differs from the family's value),
\* and the key it is listed under is the number of its miss mapped genes.
C3_KeyIsNumberOfMissMapped ==
    last.o_id # 0 =>
        /\ (KeysOf(last.o_id) # {}) <=> (MissMapped # {})
        /\ KeysOf(last.o_id) # {} => KeysOf(last.o_id) = {Cardinality(MissMapped)}

\* C4 as stated: after a family is processed, each of its genes is stored with
\* the value resolved for this, the most recent, family.
C4_LatestFamilyWins ==
    last.o_id # 0 =>
        \A i \in 1..Len(last.genes) : Stored(last.genes[i]) = last.o_id_value

\* C4 amended: every gene in gene_id_mapping is stored with the value resolved
\* for the first family that listed it, and every gene a family listed is in
\* gene_id_mapping.
C4_FirstFamilyWins ==
    /\ \A k \in DOMAIN first_resolution : Stored(k) = first_resolution[k]
    /\ \A k \in GeneKeys : Stored(k) # None => k \in DOMAIN first_resolution

\* a gene listed by a second family that resolved to another value
C4_Witness ==
    /\ last.o_id # 0
    /\ \E i \in 1..Len(last.genes) :
          /\ last.g_id_values[i] # None
          /\ last.o_id_value # last.g_id_values[i]
          /\ Stored(last.genes[i]) = first_resolution[last.genes[i]]

\* the current file has no family id and no gene that either table held when
\* the file was opened
FreshFile ==
    /\ file_no >= 1
    /\ DOMAIN o_id_split_data \cap DOMAIN file_start.families = {}
    /\ \A f \in DOMAIN o_id_split_data :
          \A k \in GenesOf(o_id_split_data[f]) : StoredAtFileStart(k) = None

C6_NoEvidenceNoConflict ==
    (last.o_id # 0 /\ AllNone(last.g_id_values)) =>
        /\ KeysOf(last.o_id) = {}
        /\ \A i \in 1..Len(last.genes) : Stored(last.genes[i]) = last.o_id_value
        /\ gene_family_id_mapping[last.o_id] = last.o_id_value
        /\ IF last.o_id_value_before = None
           THEN /\ last.o_id_value = integers_source - 1
                /\ last.o_id_value \notin
                      {gene_family_id_mapping[f] :
                          f \in DOMAIN gene_family_id_mapping \ {last.o_id}}
           ELSE last.o_id_value = last.o_id_value_before

\* a family id mapped before (case C) whose genes are all new, two of them
C6_Witness ==
    /\ last.branch = "C"
    /\ AllNone(last.g_id_values)
    /\ Cardinality(GenesOf(last.genes)) >= 2

\* the family about to be processed has no mapping and neither has any of its
\* genes (case A)
AboutToDraw ==
    /\ pc = "families"
    /\ o_ids_left # {}
    /\ NextOId \notin DOMAIN gene_family_id_mapping
    /\ \A k \in GenesOf(o_id_split_data[NextOId]) : Stored(k) = None

\* C7: integers_source advances exactly in the steps that process a family
\* with no mapping whose genes have none; the value drawn then is larger than
\* every value drawn before and than every value in either table, and becomes
\* the family's value; no other family and no gene outside the family holds it.
C7_FreshValueExactlyInCaseA ==
    /\ [][ /\ (integers_source' # integers_source) <=> AboutToDraw
           /\ AboutToDraw =>
                 /\ integers_source' > integers_source
                 /\ \A v \in FamilyValues \cup GeneValues : v < integers_source
                 /\ gene_family_id_mapping'[NextOId] = integers_source ]_vars
    /\ [](/\ \A v \in FamilyValues \cup GeneValues : v < integers_source
          /\ last.branch = "A" =>
                /\ last.o_id_value = integers_source - 1
                /\ \A f \in DOMAIN gene_family_id_mapping :
                      f # last.o_id => gene_family_id_mapping[f] # last.o_id_value
                /\ \A k \in GeneKeys :
                      Stored(k) = last.o_id_value => k \in GenesOf(last.genes))

\* a value drawn in the second file, after others were drawn
C7_Witness ==
    /\ last.branch = "A"
    /\ file_no = 2
    /\ last.o_id_value >= 2

\* C8: when main has been called again on the same file, it ends with the
\* same value for every family and the same lists of miss matched families as
\* the first call.
C8_SecondCallSameOutcome ==
    (pc = "done" /\ calls >= 2) =>
        /\ gene_family_id_mapping = first_call.families
        /\ miss_matched_gene_families_freq = first_call.freq

C10_EntriesNeverChange ==
    [][ /\ \A f \in DOMAIN gene_family_id_mapping :
              /\ f \in DOMAIN gene_family_id_mapping'
              /\ gene_family_id_mapping'[f] = gene_family_id_mapping[f]
        /\ \A o \in DOMAIN gene_id_mapping :
              /\ o \in DOMAIN gene_id_mapping'
              /\ \A g \in DOMAIN gene_id_mapping[o] :
                    /\ g \in DOMAIN gene_id_mapping'[o]
                    /\ gene_id_mapping'[o][g] = gene_id_mapping[o][g] ]_vars

\* a family id mapped before (case C) with a gene whose previous mapping is
\* another value, and with a gene whose previous mapping is the same value
C10_Witness ==
    /\ last.branch = "C"
    /\ \E i \in 1..Len(last.genes) :
          /\ last.g_id_values[i] # None
          /\ last.g_id_values[i] # last.o_id_value
          /\ Stored(last.genes[i]) = last.g_id_values[i]
    /\ \E i \in 1..Len(last.genes) : last.g_id_values[i] = last.o_id_value

=============================================================================
